---- MODULE Spec2Model ----
(***************************************************************************)
(* Model of TLogs/TlogToCSV.py: process_single_tlog (one telemetry log to  *)
(* a forward-filled table anchored on VFR_HUD) and main (batch over all    *)
(* *.tlog files, concatenation, CSV output).                               *)
(*                                                                         *)
(* A Python dict / a DataFrame row is a function from the keys it holds to *)
(* their values; a key that is absent from the function is a missing cell  *)
(* (NaN in pandas).  A DataFrame is a record of its ordered column labels  *)
(* and its rows, each row carrying its index label.                        *)
(***************************************************************************)
EXTENDS Integers, Sequences, FiniteSets, TLC

\* ---------------------------------------------------------------- bounds
\* most files the directory holds
MaxFiles == 2
\* most messages the decoder hands out for a batch of one log
MaxLogLen == 5
\* most messages the decoder hands out, in total, for a batch of several logs
MaxMsgs == 3

\* ------------------------------------------------------------ sequences
RECURSIVE Ascending(_)
\* the members of a finite set of integers, ascending
Ascending(S) ==
    IF S = {} THEN <<>>
    ELSE LET m == CHOOSE x \in S : \A y \in S : x <= y
         IN  <<m>> \o Ascending(S \ {m})

\* the entries of s at the positions in S, in the order of s
SubSeqAt(s, S) == LET keep == Ascending(S) IN [k \in DOMAIN keep |-> s[keep[k]]]

Range(s) == {s[k] : k \in DOMAIN s}

RECURSIVE AppendNew(_, _)
\* cols followed by the entries of keys that cols does not hold yet
AppendNew(cols, keys) ==
    IF keys = <<>> THEN cols
    ELSE AppendNew(IF Head(keys) \in Range(cols) THEN cols ELSE Append(cols, Head(keys)),
                   Tail(keys))

Restrict(f, S) == [k \in S |-> f[k]]

\* ------------------------------------------------------ decoder messages
\* voltage_battery / 1000.0 and current_battery / 100.0: a decimal number
Decimal(raw, scale) == [whole |-> raw \div scale, frac |-> raw % scale, scale |-> scale]

\* the messages recv_match can return for the three requested types; the
\* decoder stamps each with _timestamp when it hands it out
SysStatusBodies ==
    { [type |-> "SYS_STATUS", voltage_battery |-> 12400, current_battery |-> 150,
       battery_remaining |-> 80],
      [type |-> "SYS_STATUS", voltage_battery |-> 11900, current_battery |-> 230,
       battery_remaining |-> 75] }
VfrHudBodies ==
    { [type |-> "VFR_HUD", throttle |-> 50, alt |-> 10, groundspeed |-> 3],
      [type |-> "VFR_HUD", throttle |-> 60, alt |-> 12, groundspeed |-> 4] }
AttitudeBodies ==
    { [type |-> "ATTITUDE", roll |-> 1, pitch |-> 2] }
Bodies == SysStatusBodies \cup VfrHudBodies \cup AttitudeBodies

Stamp(body, t) == ("_timestamp" :> t) @@ body

\* ------------------------------------------------------ field extraction
\* the dict built for one message
ExtractRow(msg) ==
    LET base == ("timestamp" :> msg._timestamp) @@ ("type" :> msg.type)
    IN  IF msg.type = "SYS_STATUS" THEN
            base @@ ("voltage" :> Decimal(msg.voltage_battery, 1000))
                 @@ ("current" :> Decimal(msg.current_battery, 100))
                 @@ ("battery_remaining" :> msg.battery_remaining)
        ELSE IF msg.type = "VFR_HUD" THEN
            base @@ ("throttle" :> msg.throttle)
                 @@ ("altitude" :> msg.alt)
                 @@ ("groundspeed" :> msg.groundspeed)
        ELSE IF msg.type = "ATTITUDE" THEN
            base @@ ("roll" :> msg.roll) @@ ("pitch" :> msg.pitch)
        ELSE base

\* the keys of that dict in the order the code inserts them
RowKeys(row) ==
    <<"timestamp", "type">> \o
    (IF row.type = "SYS_STATUS" THEN <<"voltage", "current", "battery_remaining">>
     ELSE IF row.type = "VFR_HUD" THEN <<"throttle", "altitude", "groundspeed">>
     ELSE IF row.type = "ATTITUDE" THEN <<"roll", "pitch">>
     ELSE <<>>)

\* ------------------------------------------------------------ DataFrame
RECURSIVE UnionKeys(_, _)
\* column labels of a frame built from dicts: keys in order of first appearance
UnionKeys(rows, cols) ==
    IF rows = <<>> THEN cols
    ELSE UnionKeys(Tail(rows), AppendNew(cols, RowKeys(Head(rows))))

\* pd.DataFrame(data_rows): index 0..n-1
DataFrame(rows) ==
    [columns |-> UnionKeys(rows, <<>>),
     rows    |-> [k \in DOMAIN rows |-> [idx |-> k - 1, cells |-> rows[k]]]]

RECURSIVE FillRowsFirst(_, _)
\* a fill in which the value carried from above wins over the row's own
FillRowsFirst(rows, carry) ==
    IF rows = <<>> THEN <<>>
    ELSE LET r == Head(rows)
             filled == carry @@ r.cells
         IN  <<[idx |-> r.idx, cells |-> filled]>> \o FillRowsFirst(Tail(rows), filled)

RECURSIVE FillRows(_, _)
\* each row's missing cells take the value held by the row above, already filled
FillRows(rows, carry) ==
    IF rows = <<>> THEN <<>>
    ELSE LET r == Head(rows)
             filled == r.cells @@ carry
         IN  <<[idx |-> r.idx, cells |-> filled]>> \o FillRows(Tail(rows), filled)

\* df.fillna(method='ffill')
FFill(df) == [df EXCEPT !.rows = FillRows(df.rows, <<>>)]

\* df.dropna(): only the rows with a value in every column
DropNa(df) ==
    [df EXCEPT !.rows =
        SubSeqAt(df.rows, {k \in DOMAIN df.rows :
                              Range(df.columns) \subseteq DOMAIN df.rows[k].cells})]

\* df[df['type'] == t]
FilterType(df, t) ==
    [df EXCEPT !.rows =
        SubSeqAt(df.rows, {k \in DOMAIN df.rows : df.rows[k].cells["type"] = t})]

\* df.drop(col, axis=1)
DropColumn(df, col) ==
    [columns |-> SubSeqAt(df.columns, {k \in DOMAIN df.columns : df.columns[k] # col}),
     rows    |-> [k \in DOMAIN df.rows |->
                    [idx |-> df.rows[k].idx,
                     cells |-> Restrict(df.rows[k].cells,
                                        DOMAIN df.rows[k].cells \ {col})]]]

\* df[col] = value (a new column goes last)
SetColumn(df, col, value) ==
    [columns |-> AppendNew(df.columns, <<col>>),
     rows    |-> [k \in DOMAIN df.rows |->
                    [idx |-> df.rows[k].idx,
                     cells |-> (col :> value) @@ df.rows[k].cells]]]

\* df.empty
Empty(df) == df.rows = <<>> \/ df.columns = <<>>

RECURSIVE ConcatColumns(_, _)
\* column labels of pd.concat: the frames' labels in order of first appearance
ConcatColumns(frames, cols) ==
    IF frames = <<>> THEN cols
    ELSE ConcatColumns(Tail(frames), AppendNew(cols, Head(frames).columns))

RECURSIVE ConcatRowsReversed(_)
\* a concatenation that puts each later frame first
ConcatRowsReversed(frames) ==
    IF frames = <<>> THEN <<>> ELSE ConcatRowsReversed(Tail(frames)) \o Head(frames).rows

RECURSIVE ConcatRows(_)
ConcatRows(frames) ==
    IF frames = <<>> THEN <<>> ELSE Head(frames).rows \o ConcatRows(Tail(frames))

\* pd.concat(frames, ignore_index=True)
Concat(frames) ==
    LET all == ConcatRows(frames)
    IN  [columns |-> ConcatColumns(frames, <<>>),
         rows    |-> [k \in DOMAIN all |-> [idx |-> k - 1, cells |-> all[k].cells]]]

\* df.to_csv(path, index=False): the header and one record per row
ToCsv(df) ==
    [written |-> TRUE,
     columns |-> df.columns,
     rows    |-> [k \in DOMAIN df.rows |-> df.rows[k].cells]]

NoFile == [written |-> FALSE, columns |-> <<>>, rows |-> <<>>]

NoFrame == [columns |-> <<>>, rows |-> <<>>]

\* ----------------------------------------------------------- file names
\* a path is the sequence of its components
FileLabels == <<"a.tlog", "b.tlog", "c.tlog", "d.tlog">>
\* what the working directory can hold: plain names, no directory part
Directory == {<<FileLabels[k]>> : k \in 1..MaxFiles}
\* a directory holding n logs
Holding(n) == {<<FileLabels[k]>> : k \in 1..n}

\* os.path.basename
Basename(path) == path[Len(path)]

\* the orders in which a listing can return the files of S
Listings(S) ==
    {q \in [1..Cardinality(S) -> S] : \A a, b \in DOMAIN q : a # b => q[a] # q[b]}

\* ------------------------------------------------- process_single_tlog
\* lines 51-62: the frame returned for the rows read from one log
BuildFlight(rows, filename) ==
    SetColumn(DropColumn(FilterType(DropNa(FFill(DataFrame(rows))), "VFR_HUD"), "type"),
              "source_file", Basename(filename))

\* lines 46-64: what process_single_tlog returns once the stream has ended
ReturnValue(rows, filename) ==
    IF rows = <<>> THEN [none |-> TRUE, df |-> NoFrame]
    ELSE [none |-> FALSE, df |-> BuildFlight(rows, filename)]

\* a frame without rows is as good as none
WithRows(df) == IF df.rows = <<>> THEN NoFrame ELSE df

\* line 80: flight_df is not None and not flight_df.empty
Kept(ret) == ~ret.none /\ ~Empty(ret.df)

\* a loop in which a skipped log also drops the frames kept so far
KeepOrReset(flights, ret) == IF Kept(ret) THEN Append(flights, ret.df) ELSE <<>>

\* lines 80-81
Keep(flights, ret) == IF Kept(ret) THEN Append(flights, ret.df) ELSE flights

\* a save that does not look at whether any frame was kept
SaveAlways(flights, before) == ToCsv(Concat(flights))

\* lines 83-88: the file after main's last step, given the file before it
Save(flights, before) == IF flights # <<>> THEN ToCsv(Concat(flights)) ELSE before

\* ---------------------------------------------------------------- state
VARIABLES
    pc,           \* where main is: "start", "loop", "recv", "done", "crashed"
    tlog_files,   \* main: the listing
    pos,          \* main: position of log_file in tlog_files
    data_rows,    \* process_single_tlog: the dicts read so far
    all_flights,  \* main: the frames kept
    csv,          \* master_drone_dataset.csv
    outcome,      \* how main ended: "none", "no_files", "saved", "could_not_process"
    log,          \* history: the messages the decoder handed out for the current file
    results,      \* history: the frame main kept for each file (NoFrame: none)
    fate,         \* history: "unread", "open_error" or "read", per file
    ending,       \* history: how the stream of the file last opened ended:
                  \* "none" (not yet), "complete", "truncated", "raised"
    budget        \* exploration: messages the decoder may still hand out

vars == <<pc, tlog_files, pos, data_rows, all_flights, csv, outcome,
          log, results, fate, ending, budget>>

Init ==
    /\ pc = "start"
    /\ tlog_files = <<>>
    /\ pos = 0
    /\ data_rows = <<>>
    /\ all_flights = <<>>
    /\ csv = NoFile
    /\ outcome = "none"
    /\ log = <<>>
    /\ results = [f \in Directory |-> NoFrame]
    /\ fate = [f \in Directory |-> "unread"]
    /\ ending = "none"
    /\ budget = 0

\* ----------------------------------------------------------------- main
\* lines 68-76: list the directory; nothing to do without logs
Glob ==
    /\ pc = "start"
    /\ \E n \in 0..MaxFiles : \E listing \in Listings(Holding(n)) :
          /\ tlog_files' = listing
          /\ IF listing = <<>>
             THEN pc' = "done" /\ outcome' = "no_files" /\ pos' = 0
             ELSE pc' = "loop" /\ outcome' = outcome /\ pos' = 1
          /\ budget' = IF Len(listing) = 1 THEN MaxLogLen ELSE MaxMsgs
    /\ UNCHANGED <<data_rows, all_flights, csv, log, results, fate, ending>>

\* lines 78-79, 13, 18: the next log opens
OpenOk ==
    /\ pc = "loop"
    /\ pos <= Len(tlog_files)
    /\ pc' = "recv"
    /\ data_rows' = <<>>
    /\ log' = <<>>
    /\ ending' = "none"
    /\ UNCHANGED <<tlog_files, pos, all_flights, csv, outcome, results, fate, budget>>

\* lines 78-80, 13-16: the next log does not open; None is returned and skipped
OpenError ==
    /\ pc = "loop"
    /\ pos <= Len(tlog_files)
    /\ fate' = [fate EXCEPT ![tlog_files[pos]] = "open_error"]
    /\ results' = [results EXCEPT ![tlog_files[pos]] = NoFrame]
    /\ all_flights' = Keep(all_flights, [none |-> TRUE, df |-> NoFrame])
    /\ pos' = pos + 1
    /\ log' = <<>>
    /\ ending' = "none"
    /\ UNCHANGED <<pc, tlog_files, data_rows, csv, outcome, budget>>

\* lines 22-44: recv_match returns a message; its dict is appended
RecvMsg ==
    /\ pc = "recv"
    /\ budget > 0
    /\ \E body \in Bodies :
          LET msg == Stamp(body, Len(log) + 1)
          IN  /\ data_rows' = Append(data_rows, ExtractRow(msg))
              /\ log' = Append(log, msg)
    /\ budget' = budget - 1
    /\ UNCHANGED <<pc, tlog_files, pos, all_flights, csv, outcome, results, fate, ending>>

\* lines 23-24, 46-64, 80-81: recv_match returns nothing; the frame is built
\* and main keeps it unless it is None or empty; the call's locals are gone
Return(how) ==
    LET flight_df == ReturnValue(data_rows, tlog_files[pos])
    IN  /\ pc' = "loop"
        /\ fate' = [fate EXCEPT ![tlog_files[pos]] = "read"]
        /\ ending' = how
        /\ results' = [results EXCEPT ![tlog_files[pos]] =
                          IF flight_df.none THEN NoFrame ELSE WithRows(flight_df.df)]
        /\ all_flights' = Keep(all_flights, flight_df)
        /\ pos' = pos + 1
        /\ data_rows' = <<>>
        /\ UNCHANGED <<tlog_files, csv, outcome, log, budget>>

\* the log is exhausted
RecvEnd ==
    /\ pc = "recv"
    /\ Return("complete")

\* after some messages, the decoder cannot decode what follows and reports
\* the end of the stream
DecodeStop ==
    /\ pc = "recv"
    /\ log # <<>>
    /\ Return("truncated")

\* after some messages, the decoder cannot decode what follows and raises:
\* line 22 is outside the try of lines 12-16 and main catches nothing
DecodeRaise ==
    /\ pc = "recv"
    /\ log # <<>>
    /\ pc' = "crashed"
    /\ ending' = "raised"
    /\ UNCHANGED <<tlog_files, pos, data_rows, all_flights, csv, outcome,
                   log, results, fate, budget>>

\* lines 83-97: concatenate and save, or report that nothing was processed
Finish ==
    /\ pc = "loop"
    /\ pos > Len(tlog_files)
    /\ pc' = "done"
    /\ csv' = Save(all_flights, csv)
    /\ outcome' = IF all_flights # <<>> THEN "saved" ELSE "could_not_process"
    /\ log' = <<>>
    /\ ending' = "none"
    /\ UNCHANGED <<tlog_files, pos, data_rows, all_flights, results, fate, budget>>

Next ==
    \/ Glob
    \/ OpenOk
    \/ OpenError
    \/ RecvMsg
    \/ RecvEnd
    \/ DecodeStop
    \/ DecodeRaise
    \/ Finish

Spec == Init /\ [][Next]_vars

\* ======================================================================
\* Properties
\* ======================================================================
TrackedFields ==
    {"voltage", "current", "battery_remaining", "throttle", "altitude", "groundspeed",
     "roll", "pitch"}

Schema ==
    <<"timestamp", "voltage", "current", "battery_remaining", "throttle", "altitude",
      "groundspeed", "roll", "pitch", "source_file">>

\* process_single_tlog has just returned to main from reading a log
JustReturned ==
    /\ pc = "loop"
    /\ pos > 1
    /\ ending \in {"complete", "truncated"}

LastFile == tlog_files[pos - 1]
LastFrame == results[LastFile]

\* message msg sets field f / the value it gives it
Sets(msg, f) == f \in DOMAIN ExtractRow(msg)
Carried(msg, f) == ExtractRow(msg)[f]

\* message j is the last one at or before message a that sets f
LastSetter(j, a, f) ==
    /\ j <= a
    /\ Sets(log[j], f)
    /\ \A j2 \in (j + 1)..a : ~Sets(log[j2], f)

\* every tracked field has been set by message a or an earlier one
AllObserved(a) == \A f \in TrackedFields : \E j \in 1..a : Sets(log[j], f)

\* the files of the listing whose frame was kept, and the frames in listing order
KeptIn(listing) ==
    SubSeqAt([k \in DOMAIN listing |-> results[listing[k]]],
             {k \in DOMAIN listing : results[listing[k]].rows # <<>>})

\* the records of the saved file that name file f as their source
RecordsOf(f) == {m \in DOMAIN csv.rows : csv.rows[m]["source_file"] = Basename(f)}

C2_CompletenessGating ==
    JustReturned =>
        \A k \in DOMAIN LastFrame.rows : AllObserved(LastFrame.rows[k].idx + 1)

\* C3 (as claimed): the rows returned for a log are, in order, exactly the
\* VFR_HUD messages at which every tracked field has been observed, each row
\* with its message's timestamp.
C3_OneRowPerQualifyingAnchor ==
    JustReturned =>
        LET qualifying == {a \in DOMAIN log : log[a].type = "VFR_HUD" /\ AllObserved(a)}
            anchors == Ascending(qualifying)
        IN  /\ Len(LastFrame.rows) = Len(anchors)
            /\ \A k \in DOMAIN LastFrame.rows :
                  /\ LastFrame.rows[k].idx + 1 = anchors[k]
                  /\ LastFrame.rows[k].cells["timestamp"] = log[anchors[k]]._timestamp

\* C4 (as claimed): file isolation. In a log read after a log that gave
\* rows, every row holds each tracked field with a value set by a message of
\* its own log at or before the anchor; an anchor that comes before its own
\* log has set every field yields no row.
C4_FileIsolation ==
    (JustReturned /\ \E k \in 1..(pos - 2) : results[tlog_files[k]].rows # <<>>) =>
        \A k \in DOMAIN LastFrame.rows :
            LET r == LastFrame.rows[k]
            IN  \A f \in TrackedFields :
                    /\ f \in DOMAIN r.cells
                    /\ \E j \in 1..(r.idx + 1) :
                          Sets(log[j], f) /\ r.cells[f] = Carried(log[j], f)

\* C5: partial-failure tolerance. When main returns, every listed log has
\* been processed; a log that did not open or gave no row has no record in
\* the saved file; every other log has all of its rows there; and the file
\* has been saved exactly when some log gave a row.
C5_PartialFailureTolerance ==
    pc = "done" =>
        /\ \A k \in DOMAIN tlog_files : fate[tlog_files[k]] # "unread"
        /\ \A k \in DOMAIN tlog_files :
              LET f == tlog_files[k]
              IN  /\ (fate[f] = "open_error" => RecordsOf(f) = {})
                  /\ Cardinality(RecordsOf(f)) = Len(results[f].rows)
                  /\ \A n \in DOMAIN results[f].rows :
                        \E m \in RecordsOf(f) : csv.rows[m] = results[f].rows[n].cells
        /\ csv.written <=> (\E k \in DOMAIN tlog_files : results[tlog_files[k]].rows # <<>>)

\* C5 witness: a batch whose first log did not open and whose second log's
\* rows were saved
C5_Witness ==
    /\ pc = "done"
    /\ Len(tlog_files) >= 2
    /\ fate[tlog_files[1]] = "open_error"
    /\ csv.written
    /\ RecordsOf(tlog_files[2]) # {}

\* C6 (as claimed): a decoding failure after some messages of a log were read
\* does not stop the batch, and the log it happened in has no record in the
\* saved file.
C6_DecodeFailureContained ==
    /\ ~(pc = "crashed" /\ ending = "raised" /\ log # <<>>)
    /\ (JustReturned /\ ending = "truncated" /\ log # <<>>) =>
          /\ results[LastFile].rows = <<>>
          /\ \A n \in DOMAIN all_flights : \A m \in DOMAIN all_flights[n].rows :
                all_flights[n].rows[m].cells["source_file"] # Basename(LastFile)

\* C7: concatenation order and provenance. Each returned row names the log
\* it was read from and carries the timestamp of its anchor message; in the
\* saved file the records follow the listing order of their logs, and the
\* records of one log are that log's rows in their own order.
C7_ConcatOrder ==
    /\ JustReturned =>
          \A k \in DOMAIN LastFrame.rows :
              LET r == LastFrame.rows[k]
              IN  /\ r.cells["source_file"] = Basename(LastFile)
                  /\ r.idx + 1 \in DOMAIN log
                  /\ r.cells["timestamp"] = log[r.idx + 1]._timestamp
    /\ csv.written =>
          /\ \A m \in DOMAIN csv.rows :
                \E k \in DOMAIN tlog_files : m \in RecordsOf(tlog_files[k])
          /\ \A k1, k2 \in DOMAIN tlog_files :
                k1 < k2 =>
                    \A m1 \in RecordsOf(tlog_files[k1]) :
                        \A m2 \in RecordsOf(tlog_files[k2]) : m1 < m2
          /\ \A k \in DOMAIN tlog_files :
                LET f == tlog_files[k]
                IN  SubSeqAt(csv.rows, RecordsOf(f)) =
                        [n \in DOMAIN results[f].rows |-> results[f].rows[n].cells]

\* C7 witness: a saved file with the records of two logs, one of them with
\* at least two rows
C7_Witness ==
    /\ csv.written
    /\ \E k1, k2 \in DOMAIN tlog_files :
          /\ k1 < k2
          /\ RecordsOf(tlog_files[k1]) # {}
          /\ RecordsOf(tlog_files[k2]) # {}
          /\ Cardinality(RecordsOf(tlog_files[k1])) + Cardinality(RecordsOf(tlog_files[k2])) >= 3

C9_FixedSchema ==
    csv.written =>
        /\ csv.columns = Schema
        /\ \A m \in DOMAIN csv.rows : DOMAIN csv.rows[m] = Range(Schema)

\* C10 (as claimed): the saved file is the same for every order in which the
\* listing can return the same files.
C10_RerunIdentical ==
    pc = "done" =>
        \A listing \in Listings(Range(tlog_files)) : Save(KeptIn(listing), NoFile) = csv

====
